---- MODULE Spec2Model ----
(***************************************************************************)
(* Model of the Eventail listener registry and emission engine             *)
(* (src/src/Eventail.ts) together with its duplicate/priority index        *)
(* (src/src/ListenerIndex.ts).                                             *)
(*                                                                         *)
(* JavaScript arrays and listener objects have identity: an array is a cell *)
(* of the heap `arrays`, a listener object a cell of the heap `recs`; a     *)
(* slice() allocates a new array cell that shares the listener cells.       *)
(* Cells that nothing references any more are dropped (garbage collection). *)
(* emit is split at the points where it hands control to a callback: a      *)
(* running callback may call on/once/off/emit itself, return, or throw.     *)
(***************************************************************************)
EXTENDS Integers, Sequences, FiniteSets, TLC

\* ---------------------------------------------------------------- inputs
TypeOrder  == <<"x", "y">>     \* the keys of the map, in a fixed order
Channels   == {"x"}            \* the channel the callers of Next work on
Undefined  == "undefined"

Request(callback, context, priority, once) ==
    [callback |-> callback, context |-> context, priority |-> priority,
     once |-> once]

\* the registrations the callers ask for: three (callback, context) pairs --
\* one callback without a context and with one, and a second callback --
\* each as a regular and as a once listener, at priorities 0, 1 and 2
Requests ==
    {Request("f", Undefined, 1, FALSE), Request("f", Undefined, 0, TRUE),
     Request("g", Undefined, 0, FALSE), Request("g", Undefined, 2, TRUE),
     Request("f", "c1",      2, FALSE), Request("f", "c1",      1, TRUE)}

Pairs == {<<q.callback, q.context>> : q \in Requests}

\* a second set of callers, who register one callback with two context
\* objects and without a context, and emit with arguments
RequestsByContext ==
    {Request("f", "c1",      1, FALSE), Request("f", "c2", 1, TRUE),
     Request("f", Undefined, 0, FALSE)}

PairsByContext == {<<q.callback, q.context>> : q \in RequestsByContext}

Arguments == {<<"a">>, <<"a", "b">>}

\* a fourth set of callers, who register four pairs at three priorities, so
\* that a listener can be inserted between listeners of its own priority
\* and listeners of a greater one
RequestsByPriority ==
    {Request("f", Undefined, 0, FALSE), Request("g", Undefined, 1, FALSE),
     Request("f", "c1",      1, TRUE),  Request("g", "c1",      2, FALSE)}

PairsByPriority == {<<q.callback, q.context>> : q \in RequestsByPriority}

\* a third set of callers, who work on two channels with the same requests
\* and emit each channel with its own arguments
TwoChannels == {"x", "y"}

RequestsOnTwo ==
    {Request("f", "c1", 1, FALSE), Request("f", Undefined, 0, TRUE)}

PairsOnTwo == {<<q.callback, q.context>> : q \in RequestsOnTwo}

ArgumentsOf == [x |-> <<"a">>, y |-> <<"a", "b">>]

\* the own properties of the context objects: c1 and c2 are two objects
\* with the same properties
fields(context) == IF context = Undefined THEN <<>> ELSE [id |-> 1]

\* ---------------------------------------------------------------- bounds
MaxListeners == 3      \* listener objects alive at the same time
MaxDepth     == 2      \* emit calls nested inside one another
MaxSorted    == 4      \* listener objects alive with the fourth set of callers
MaxLong      == 11     \* listeners of the long list of the fifth set of callers
MaxRemovals  == 3      \* listeners the fifth set of callers take off the long list

\* ------------------------------------------------------ program constants
smallLength == 10
NoPriority  == -1      \* getPriority's `undefined`

VARIABLES
    listeners,   \* Map<type, ListenerData>: a function on the types present
    arrays,      \* heap of Listener[] arrays: array id -> sequence of listener ids
    recs,        \* heap of Listener objects: listener id -> fields
    stack,       \* emit calls in progress, innermost last
    removed,     \* observation: the listener objects that a call of off()
                 \* was asked to remove and that an emit in progress still holds
    listenerIndex \* a ListenerIndex object of its own, outside any emitter

vars == <<listeners, arrays, recs, stack, removed, listenerIndex>>

\* ------------------------------------------------------------ Map helpers
EmptyMap == [k \in {} |-> 0]

MapSet(m, k, v) == [x \in (DOMAIN m) \cup {k} |-> IF x = k THEN v ELSE m[x]]

MapDelete(m, k) == [x \in (DOMAIN m) \ {k} |-> m[x]]

\* ---------------------------------------------------------- ListenerIndex
ListenerIndex(callback, context, priority) ==
    IF callback = Undefined
    THEN [noContextCallbacks |-> EmptyMap, contextMap |-> EmptyMap]
    ELSE IF context = Undefined
    THEN [noContextCallbacks |-> MapSet(EmptyMap, callback, priority),
          contextMap         |-> EmptyMap]
    ELSE [noContextCallbacks |-> EmptyMap,
          contextMap         |-> MapSet(EmptyMap, context,
                                        MapSet(EmptyMap, callback, priority))]

\* an insert that sets the priority again when the pair is present
insertOverwrite(index, callback, context, priority) ==
    IF context = Undefined
    THEN [index EXCEPT !.noContextCallbacks = MapSet(@, callback, priority)]
    ELSE [index EXCEPT !.contextMap =
              MapSet(@, context,
                     MapSet(IF context \in DOMAIN index.contextMap
                            THEN index.contextMap[context]
                            ELSE EmptyMap,
                            callback, priority))]

insert(index, callback, context, priority) ==
    IF context = Undefined
    THEN IF callback \in DOMAIN index.noContextCallbacks
         THEN index
         ELSE [index EXCEPT !.noContextCallbacks = MapSet(@, callback, priority)]
    ELSE IF context \notin DOMAIN index.contextMap
         THEN [index EXCEPT !.contextMap =
                   MapSet(@, context, MapSet(EmptyMap, callback, priority))]
         ELSE IF callback \notin DOMAIN index.contextMap[context]
              THEN [index EXCEPT !.contextMap =
                        MapSet(@, context,
                               MapSet(index.contextMap[context], callback, priority))]
              ELSE index

\* a remove that drops the context with all its callbacks
removeWholeContext(index, callback, context) ==
    IF context = Undefined
    THEN [index EXCEPT !.noContextCallbacks = MapDelete(@, callback)]
    ELSE [index EXCEPT !.contextMap = MapDelete(@, context)]

remove(index, callback, context) ==
    IF context = Undefined
    THEN [index EXCEPT !.noContextCallbacks = MapDelete(@, callback)]
    ELSE IF context \notin DOMAIN index.contextMap
         THEN index
         ELSE LET callbacks == MapDelete(index.contextMap[context], callback)
              IN  IF DOMAIN callbacks = {}
                  THEN [index EXCEPT !.contextMap = MapDelete(@, context)]
                  ELSE [index EXCEPT !.contextMap = MapSet(@, context, callbacks)]

\* a has that looks only at the callbacks registered without a context
hasWithoutContext(index, callback, context) ==
    callback \in DOMAIN index.noContextCallbacks

has(index, callback, context) ==
    IF context = Undefined
    THEN callback \in DOMAIN index.noContextCallbacks
    ELSE IF context \notin DOMAIN index.contextMap
         THEN FALSE
         ELSE callback \in DOMAIN index.contextMap[context]

getPriority(index, callback, context) ==
    IF context = Undefined
    THEN IF callback \in DOMAIN index.noContextCallbacks
         THEN index.noContextCallbacks[callback]
         ELSE NoPriority
    ELSE IF context \notin DOMAIN index.contextMap
         THEN NoPriority
         ELSE IF callback \in DOMAIN index.contextMap[context]
              THEN index.contextMap[context][callback]
              ELSE NoPriority

\* ------------------------------------------------------------ heap helpers
\* smallest id not in use
FreshId(used) == CHOOSE n \in 1..(Cardinality(used) + 1) :
                     n \notin used /\ \A k \in 1..(n - 1) : k \in used

Elems(s) == {s[k] : k \in DOMAIN s}

\* Array.prototype.splice(k, 1) and splice(k, 0, e), k counted from 0
RemoveAt(s, k) == SubSeq(s, 1, k) \o SubSeq(s, k + 2, Len(s))

InsertAt(s, k, e) == SubSeq(s, 1, k) \o <<e>> \o SubSeq(s, k + 1, Len(s))

\* ------------------------------------------------------------------ types
Listener(callback, context, priority, once) ==
    [_callback |-> callback, _context |-> context, _priority |-> priority,
     _once |-> once, _called |-> FALSE]

ListenerData(list, locked, index) ==
    [_listeners |-> list, _isLocked |-> locked, _index |-> index]

\* -------------------------------------------------------------- addListener
\* the binary search of addListener: l, r and m count from 0
RECURSIVE insertionPoint(_, _, _, _, _)
insertionPoint(R, list, priority, l, r) ==
    IF l < r
    THEN LET m == (l + r) \div 2
         IN  IF R[list[m + 1]]._priority < priority
             THEN insertionPoint(R, list, priority, m + 1, r)
             ELSE insertionPoint(R, list, priority, l, m)
    ELSE l

\* an insertion that puts the listener in the place of the last one
insertOverLast(R, list, listener) ==
    IF Len(list) = 0 THEN <<listener>> ELSE [list EXCEPT ![Len(list)] = listener]

\* an insertion that always appends
insertAtEnd(R, list, listener) == Append(list, listener)

\* "Insert listener in priority order using optimized insertion"
insertInOrder(R, list, listener) ==
    LET priority == R[listener]._priority
    IN  IF Len(list) = 0 \/ R[list[Len(list)]]._priority <= priority
        THEN Append(list, listener)
        ELSE IF R[list[1]]._priority >= priority
             THEN <<listener>> \o list
             ELSE InsertAt(list, insertionPoint(R, list, priority, 0, Len(list)),
                           listener)

\* an unlock that leaves the locked array in place
copyOnWriteInPlace(L, A, type) ==
    [listeners |-> [L EXCEPT ![type]._isLocked = FALSE], arrays |-> A]

\* "If the list is locked during emit, create a copy": the ListenerData of
\* `type` and the array heap after the unlock-and-slice of addListener and off
copyOnWrite(L, A, type) ==
    IF L[type]._isLocked
    THEN LET a == FreshId(DOMAIN A)
         IN  [listeners |-> [L EXCEPT ![type]._isLocked = FALSE,
                                      ![type]._listeners = a],
              arrays    |-> MapSet(A, a, A[L[type]._listeners])]
    ELSE [listeners |-> L, arrays |-> A]

\* an addListener that copies a locked array before it looks for a duplicate
addListenerCopiesFirst(L, A, R, type, once, priority, callback, context) ==
    IF type \notin DOMAIN L
    THEN LET r == FreshId(DOMAIN R)
             a == FreshId(DOMAIN A)
         IN  [listeners |-> MapSet(L, type,
                                   ListenerData(a, FALSE,
                                       ListenerIndex(callback, context, priority))),
              arrays    |-> MapSet(A, a, <<r>>),
              recs      |-> MapSet(R, r, Listener(callback, context, priority, once)),
              threw     |-> FALSE,
              rec       |-> r]
    ELSE LET cow == copyOnWrite(L, A, type)
         IN  IF has(L[type]._index, callback, context)
             THEN [listeners |-> cow.listeners, arrays |-> cow.arrays,
                   recs |-> R, threw |-> TRUE, rec |-> 0]
             ELSE LET L1 == [cow.listeners EXCEPT ![type]._index =
                                 insert(@, callback, context, priority)]
                      r  == FreshId(DOMAIN R)
                      R1 == MapSet(R, r, Listener(callback, context, priority, once))
                      a  == L1[type]._listeners
                  IN  [listeners |-> L1,
                       arrays    |-> [cow.arrays EXCEPT ![a] = insertInOrder(R1, @, r)],
                       recs      |-> R1,
                       threw     |-> FALSE,
                       rec       |-> r]

\* the registry after addListener; threw = "Event listener already exists"
addListener(L, A, R, type, once, priority, callback, context) ==
    IF type \notin DOMAIN L
    THEN LET r == FreshId(DOMAIN R)
             a == FreshId(DOMAIN A)
         IN  [listeners |-> MapSet(L, type,
                                   ListenerData(a, FALSE,
                                       ListenerIndex(callback, context, priority))),
              arrays    |-> MapSet(A, a, <<r>>),
              recs      |-> MapSet(R, r, Listener(callback, context, priority, once)),
              threw     |-> FALSE,
              rec       |-> r]
    ELSE IF has(L[type]._index, callback, context)
         THEN [listeners |-> L, arrays |-> A, recs |-> R, threw |-> TRUE, rec |-> 0]
         ELSE LET L1  == [L EXCEPT ![type]._index =
                                       insert(@, callback, context, priority)]
                  r   == FreshId(DOMAIN R)
                  R1  == MapSet(R, r, Listener(callback, context, priority, once))
                  cow == copyOnWrite(L1, A, type)
                  a   == cow.listeners[type]._listeners
              IN  [listeners |-> cow.listeners,
                   arrays    |-> [cow.arrays EXCEPT ![a] = insertInOrder(R1, @, r)],
                   recs      |-> R1,
                   threw     |-> FALSE,
                   rec       |-> r]

\* ---------------------------------------------------------------------- off
matches(R, listener, callback, context) ==
    R[listener]._callback = callback /\ R[listener]._context = context

\* first index in from..to (counted from 0) holding the pair, or -1
RECURSIVE scan(_, _, _, _, _, _)
scan(R, list, callback, context, from, to) ==
    IF from > to
    THEN -1
    ELSE IF matches(R, list[from + 1], callback, context)
         THEN from
         ELSE scan(R, list, callback, context, from + 1, to)

\* a first loop that ends behind the listeners of the priority
rangeStartBehind(R, list, priority, l, r) ==
    Cardinality({k \in DOMAIN list : R[list[k]]._priority <= priority})

\* first loop of the binary search of off: the value of l when it ends
RECURSIVE rangeStart(_, _, _, _, _)
rangeStart(R, list, priority, l, r) ==
    IF l <= r
    THEN LET m == (l + r) \div 2
         IN  IF R[list[m + 1]]._priority < priority
             THEN rangeStart(R, list, priority, m + 1, r)
             ELSE rangeStart(R, list, priority, l, m - 1)
    ELSE l

\* second loop of the binary search of off: the value of r when it ends
RECURSIVE rangeEnd(_, _, _, _, _)
rangeEnd(R, list, priority, l, r) ==
    IF l <= r
    THEN LET m == (l + r) \div 2
         IN  IF R[list[m + 1]]._priority <= priority
             THEN rangeEnd(R, list, priority, m + 1, r)
             ELSE rangeEnd(R, list, priority, l, m - 1)
    ELSE r

\* a removal that takes the first listener with the callback, whatever its
\* context
removeSpecificAnyContext(R, index, list, callback, context) ==
    LET hits == {k \in DOMAIN list : R[list[k]]._callback = callback}
    IN  IF hits = {}
        THEN [drop |-> FALSE, at |-> -1]
        ELSE IF Len(list) = 1
        THEN [drop |-> TRUE, at |-> -1]
        ELSE [drop |-> FALSE,
              at   |-> (CHOOSE k \in hits : \A j \in hits : k <= j) - 1]

\* a removal without the check of the last element
removeSpecificSkipLast(R, index, list, callback, context) ==
    IF matches(R, list[1], callback, context)
    THEN IF Len(list) = 1
         THEN [drop |-> TRUE,  at |-> -1]
         ELSE [drop |-> FALSE, at |-> 0]
    ELSE [drop |-> FALSE,
          at   |-> scan(R, list, callback, context, 1, Len(list) - 2)]

\* "Remove specific listener matching callback and optional context", on a
\* non-empty list: drop = the ListenerData is deleted from the map,
\* at = the position (from 0) taken out of the array, -1 when none
removeSpecific(R, index, list, callback, context) ==
    LET listLength == Len(list)
        lastIndex  == listLength - 1
    IN  IF matches(R, list[1], callback, context)
        THEN IF listLength = 1
             THEN [drop |-> TRUE,  at |-> -1]
             ELSE [drop |-> FALSE, at |-> 0]
        ELSE IF matches(R, list[lastIndex + 1], callback, context)
        THEN [drop |-> FALSE, at |-> lastIndex]
        ELSE IF listLength < smallLength
                \/ R[list[1]]._priority = R[list[lastIndex + 1]]._priority
        THEN [drop |-> FALSE,
              at   |-> scan(R, list, callback, context, 1, lastIndex - 1)]
        ELSE LET priority == getPriority(index, callback, context)
             IN  IF priority = NoPriority
                 THEN [drop |-> FALSE, at |-> -1]
                 ELSE LET start == rangeStart(R, list, priority, 0, listLength - 1)
                          end   == rangeEnd(R, list, priority, start, listLength - 1)
                      IN  [drop |-> FALSE,
                           at   |-> scan(R, list, callback, context, start, end)]

\* an off that, asked for the whole channel, empties the array and keeps the
\* ListenerData with its index
offResultKeepsIndex(L, A, R, type, callback, context) ==
    IF type \notin DOMAIN L
    THEN [listeners |-> L, arrays |-> A]
    ELSE LET cow == copyOnWrite(L, A, type)
             a   == cow.listeners[type]._listeners
         IN  [listeners |-> cow.listeners,
              arrays    |-> [cow.arrays EXCEPT ![a] =
                                IF callback = Undefined
                                THEN <<>>
                                ELSE SelectSeq(@, LAMBDA r :
                                         ~matches(R, r, callback, context))]]

\* the registry after off(type, callback, context)
offResult(L, A, R, type, callback, context) ==
    IF type \notin DOMAIN L
    THEN [listeners |-> L, arrays |-> A]
    ELSE LET cow  == copyOnWrite(L, A, type)
             L1   == cow.listeners
             A1   == cow.arrays
             a    == L1[type]._listeners
             list == A1[a]
         IN  IF Len(list) = 0
             THEN [listeners |-> MapDelete(L1, type), arrays |-> A1]
             ELSE IF callback = Undefined
             \* the index entries are removed from a ListenerData that the
             \* map no longer holds
             THEN [listeners |-> MapDelete(L1, type), arrays |-> A1]
             ELSE LET hit == removeSpecific(R, L1[type]._index, list,
                                            callback, context)
                  IN  IF hit.drop
                      THEN [listeners |-> MapDelete(L1, type), arrays |-> A1]
                      ELSE IF hit.at = -1
                      THEN [listeners |-> L1, arrays |-> A1]
                      ELSE [listeners |-> L1,
                            arrays    |-> [A1 EXCEPT ![a] = RemoveAt(@, hit.at)]]

\* --------------------------------------------------------------------- emit
\* one emit call in progress: its locals, and what it has observed
\*   type, args, snapshot, i, listener, hasItemsToDelete : the parameters
\*     and locals of emit (i counts from 0; listener is the one whose
\*     callback is running)
\*   call      : the invocation in progress: function, receiver, arguments
\*   view      : how the call acquired its view of the list -- "cloned"
\*               (it found the channel locked and sliced the array) or
\*               "locked" (it locked the channel) -- when the caller has
\*               this recorded, else "unrecorded"
\*   start     : the listeners of the channel when the call started
\*   log       : the listeners this call has invoked so far, in order
\*   unreached : the listeners of start that off() was asked to remove
\*               during this call, before the call had invoked them
Frame(type, args, view, snapshot, i, listener, call, hasItemsToDelete, start, log, unreached) ==
    [type |-> type, args |-> args, view |-> view, snapshot |-> snapshot, i |-> i,
     listener |-> listener, call |-> call,
     hasItemsToDelete |-> hasItemsToDelete, start |-> start, log |-> log,
     unreached |-> unreached]

\* an invocation that passes neither the receiver nor the arguments on
applyBare(R, listener, args) ==
    [fn |-> R[listener]._callback, this |-> Undefined, args |-> <<>>]

\* listener._callback.apply(listener._context, args)
apply(R, listener, args) ==
    [fn |-> R[listener]._callback, this |-> R[listener]._context, args |-> args]

Top == stack[Len(stack)]

Pop == SubSeq(stack, 1, Len(stack) - 1)

\* a sequence without its repetitions, first occurrences kept
RECURSIVE Dedup(_)
Dedup(s) ==
    IF s = <<>>
    THEN <<>>
    ELSE LET d == Dedup(SubSeq(s, 1, Len(s) - 1))
         IN  IF s[Len(s)] \in Elems(d) THEN d ELSE Append(d, s[Len(s)])

RECURSIVE Flatten(_)
Flatten(ss) == IF ss = <<>> THEN <<>> ELSE Head(ss) \o Flatten(Tail(ss))

PositionIn(s, e) == CHOOSE k \in DOMAIN s : s[k] = e

\* The next state.  Object identities are opaque, so the heaps keep only the
\* cells that are still referenced (garbage collection) and number them in
\* the order in which a walk over the map and then over the emit calls in
\* progress meets them.
Renumbered(L, A, R, X, S, arrOrder, recOrder) ==
    LET arr == [a \in Elems(arrOrder) |-> PositionIn(arrOrder, a)]
        rec == [r \in Elems(recOrder) |-> PositionIn(recOrder, r)]
    IN  /\ listeners' = [t \in DOMAIN L |->
                            [L[t] EXCEPT !._listeners = arr[@]]]
        /\ arrays'    = [n \in DOMAIN arrOrder |->
                            [k \in DOMAIN A[arrOrder[n]] |->
                                rec[A[arrOrder[n]][k]]]]
        /\ recs'      = [n \in DOMAIN recOrder |-> R[recOrder[n]]]
        /\ removed'   = {rec[r] : r \in X \cap Elems(recOrder)}
        /\ listenerIndex' = listenerIndex
        /\ stack'     = [k \in DOMAIN S |->
                            [S[k] EXCEPT
                                !.snapshot  = arr[@],
                                !.listener  = rec[@],
                                !.start     = [j \in DOMAIN S[k].start |->
                                                  rec[S[k].start[j]]],
                                !.log       = [j \in DOMAIN S[k].log |->
                                                  rec[S[k].log[j]]],
                                !.unreached = {rec[r] : r \in S[k].unreached}]]

Commit(L, A, R, X, S) ==
    \E arrOrder \in
         {Dedup([k \in DOMAIN SelectSeq(TypeOrder, LAMBDA t : t \in DOMAIN L) |->
                    L[SelectSeq(TypeOrder, LAMBDA t : t \in DOMAIN L)[k]]._listeners]
                \o [k \in DOMAIN S |-> S[k].snapshot])} :
      \E recOrder \in
           {Dedup(Flatten([k \in DOMAIN arrOrder |-> A[arrOrder[k]]])
                  \o Flatten([k \in DOMAIN S |->
                         <<S[k].listener>> \o S[k].start \o S[k].log]))} :
        Renumbered(L, A, R, X, S, arrOrder, recOrder)

\* removal of the index entries of the called listeners of a list, in order
RECURSIVE removeCalled(_, _, _, _)
removeCalled(R, index, list, r) ==
    IF r > Len(list)
    THEN index
    ELSE removeCalled(R,
                      IF R[list[r]]._called
                      THEN remove(index, R[list[r]]._callback, R[list[r]]._context)
                      ELSE index,
                      list, r + 1)

\* the two early returns of emit: no ListenerData, or an empty list
emitReturnsFalse(L, A, type) ==
    \/ type \notin DOMAIN L
    \/ Len(A[L[type]._listeners]) = 0

\* emit(type, ...args) from its first line to the first callback it invokes;
\* record = the branch taken at "if (listenerData._isLocked)" is recorded
emitRecording(type, args, record) ==
    IF emitReturnsFalse(listeners, arrays, type)
    THEN UNCHANGED vars
    ELSE LET data     == listeners[type]
             a        == IF data._isLocked THEN FreshId(DOMAIN arrays)
                                           ELSE data._listeners
             A1       == IF data._isLocked
                         THEN MapSet(arrays, a, arrays[data._listeners])
                         ELSE arrays
             L1       == IF data._isLocked
                         THEN [listeners EXCEPT ![type]._listeners = a]
                         ELSE [listeners EXCEPT ![type]._isLocked = TRUE]
             snapshot == L1[type]._listeners
             listener == A1[snapshot][1]
         IN  /\ Len(stack) < MaxDepth
             /\ Commit(L1, A1, recs, removed,
                       Append(stack,
                              Frame(type, args,
                                    IF ~record THEN "unrecorded"
                                    ELSE IF data._isLocked THEN "cloned"
                                    ELSE "locked",
                                    snapshot, 0, listener,
                                    apply(recs, listener, args), FALSE,
                                    A1[snapshot], <<listener>>, {})))

emitArgs(type, args) == emitRecording(type, args, FALSE)

\* emit(type): no arguments after the type
emit(type) == emitArgs(type, <<>>)

\* emit(type), with the branch taken at the lock recorded
emitRecorded(type) == emitRecording(type, <<>>, TRUE)

\* an emit that releases the lock but never compacts
emitFinishNoCompaction(R, type, snapshot, hasItemsToDelete) ==
    IF type \notin DOMAIN listeners
    THEN [listeners |-> listeners, arrays |-> arrays, returns |-> TRUE]
    ELSE [listeners |-> IF listeners[type]._listeners = snapshot
                        THEN [listeners EXCEPT ![type]._isLocked = FALSE]
                        ELSE listeners,
          arrays    |-> arrays,
          returns   |-> TRUE]

\* an emit that reports a channel that is gone after its loop as "no listeners"
emitFinishGoneIsFalse(R, type, snapshot, hasItemsToDelete) ==
    IF type \notin DOMAIN listeners
    THEN [listeners |-> listeners, arrays |-> arrays, returns |-> FALSE]
    ELSE [listeners |-> IF listeners[type]._listeners = snapshot
                        THEN [listeners EXCEPT ![type]._isLocked = FALSE]
                        ELSE listeners,
          arrays    |-> arrays,
          returns   |-> TRUE]

\* an emit that releases the lock whatever array the channel holds
emitFinishAlwaysUnlocks(R, type, snapshot, hasItemsToDelete) ==
    IF type \notin DOMAIN listeners
    THEN [listeners |-> listeners, arrays |-> arrays, returns |-> TRUE]
    ELSE LET L1   == [listeners EXCEPT ![type]._isLocked = FALSE]
             a    == L1[type]._listeners
             list == arrays[a]
             kept == SelectSeq(list, LAMBDA r : ~R[r]._called)
         IN  IF ~hasItemsToDelete
             THEN [listeners |-> L1, arrays |-> arrays, returns |-> TRUE]
             ELSE IF Len(kept) = 0
             THEN [listeners |-> MapDelete(L1, type), arrays |-> arrays,
                   returns   |-> TRUE]
             ELSE [listeners |-> [L1 EXCEPT ![type]._index =
                                      removeCalled(R, @, list, 1)],
                   arrays    |-> [arrays EXCEPT ![a] = kept],
                   returns   |-> TRUE]

\* emit after its loop: reconcile the lock, compact, return true
\* (returns = the value emit returns)
emitFinish(R, type, snapshot, hasItemsToDelete) ==
    IF type \notin DOMAIN listeners
    THEN [listeners |-> listeners, arrays |-> arrays, returns |-> TRUE]
    ELSE LET L1   == IF listeners[type]._listeners = snapshot
                     THEN [listeners EXCEPT ![type]._isLocked = FALSE]
                     ELSE listeners
             a    == L1[type]._listeners
             list == arrays[a]
             kept == SelectSeq(list, LAMBDA r : ~R[r]._called)
         IN  IF ~hasItemsToDelete
             THEN [listeners |-> L1, arrays |-> arrays, returns |-> TRUE]
             ELSE IF Len(kept) = 0
             THEN [listeners |-> MapDelete(L1, type), arrays |-> arrays,
                   returns   |-> TRUE]
             ELSE [listeners |-> [L1 EXCEPT ![type]._index =
                                      removeCalled(R, @, list, 1)],
                   arrays    |-> [arrays EXCEPT ![a] = kept],
                   returns   |-> TRUE]

\* the end of the innermost emit call when the callback of the last listener
\* of its snapshot returns: the registry it leaves and the value it returns
emitReturn ==
    emitFinish(IF recs[Top.listener]._once
               THEN [recs EXCEPT ![Top.listener]._called = TRUE]
               ELSE recs,
               Top.type, Top.snapshot,
               Top.hasItemsToDelete \/ recs[Top.listener]._once)

\* an emit that returns as soon as a callback has returned
callbackReturnEarly ==
    /\ stack # <<>>
    /\ Commit(listeners, arrays,
              IF recs[Top.listener]._once
              THEN [recs EXCEPT ![Top.listener]._called = TRUE]
              ELSE recs,
              removed, Pop)

\* the callback that emit is waiting for returns: emit marks a once listener
\* and either invokes the next listener of the snapshot or finishes
callbackReturn ==
    /\ stack # <<>>
    /\ LET f      == Top
           R1     == IF recs[f.listener]._once
                     THEN [recs EXCEPT ![f.listener]._called = TRUE]
                     ELSE recs
           hasDel == f.hasItemsToDelete \/ recs[f.listener]._once
           i      == f.i + 1
       IN  IF i < Len(arrays[f.snapshot])
           THEN LET listener == arrays[f.snapshot][i + 1]
                IN  Commit(listeners, arrays, R1, removed,
                           Append(Pop, [f EXCEPT !.i = i,
                                                 !.listener = listener,
                                                 !.call = apply(R1, listener,
                                                                f.args),
                                                 !.hasItemsToDelete = hasDel,
                                                 !.log = Append(@, listener)]))
           ELSE LET fin == emitReturn
                IN  Commit(fin.listeners, fin.arrays, R1, removed, Pop)

\* a throw after which emit still marks the once listener that threw
callbackThrowMarks ==
    /\ stack # <<>>
    /\ Commit(listeners, arrays,
              IF recs[Top.listener]._once
              THEN [recs EXCEPT ![Top.listener]._called = TRUE]
              ELSE recs,
              removed, Pop)

\* a throw after which emit still reconciles and compacts (try/finally)
callbackThrowFinally ==
    /\ stack # <<>>
    /\ LET fin == emitFinish(recs, Top.type, Top.snapshot, Top.hasItemsToDelete)
       IN  Commit(fin.listeners, fin.arrays, recs, removed, Pop)

\* the callback that emit is waiting for throws: the error leaves emit at
\* the call, nothing after the call runs
callbackThrow ==
    /\ stack # <<>>
    /\ Commit(listeners, arrays, recs, removed, Pop)

\* ------------------------------------------------------------ on, once, off
\* a call allocates a listener object only when it does not throw
RoomWithin(max, type, callback, context) ==
    \/ Len(recs) < max
    \/ /\ type \in DOMAIN listeners
       /\ has(listeners[type]._index, callback, context)

Room(type, callback, context) ==
    RoomWithin(MaxListeners, type, callback, context)

registerWithin(max, type, once_, priority, callback, context) ==
    /\ RoomWithin(max, type, callback, context)
    /\ LET res == addListener(listeners, arrays, recs, type, once_, priority,
                              callback, context)
       IN  IF res.threw
           THEN UNCHANGED vars
           ELSE Commit(res.listeners, res.arrays, res.recs, removed, stack)

register(type, once_, priority, callback, context) ==
    /\ Room(type, callback, context)
    /\ registerWithin(MaxListeners, type, once_, priority, callback, context)

on(type, callback, context, priority) ==
    register(type, FALSE, priority, callback, context)

once(type, callback, context, priority) ==
    register(type, TRUE, priority, callback, context)

\* the listeners of the channel that a call off(type, callback, context) is
\* asked to remove
asked(type, callback, context) ==
    IF type \in DOMAIN listeners
    THEN {r \in Elems(arrays[listeners[type]._listeners]) :
             callback = Undefined \/ matches(recs, r, callback, context)}
    ELSE {}

off(type, callback, context) ==
    LET res == offResult(listeners, arrays, recs, type, callback, context)
    IN  Commit(res.listeners, res.arrays, recs,
               removed \cup asked(type, callback, context),
               [k \in DOMAIN stack |->
                   [stack[k] EXCEPT !.unreached =
                        @ \cup {r \in asked(type, callback, context) :
                                  /\ r \in Elems(stack[k].start)
                                  /\ r \notin Elems(stack[k].log)}]])

\* ---------------------------------------------------------- specifications
Init ==
    /\ listeners = EmptyMap
    /\ arrays    = <<>>
    /\ recs      = <<>>
    /\ removed   = {}
    /\ stack     = <<>>
    /\ listenerIndex = ListenerIndex(Undefined, Undefined, 0)

\* every call may come from the owner of the emitter (stack empty) or from
\* the callback that the innermost emit is waiting for
Next ==
    \/ \E type \in Channels, q \in {q \in Requests : ~q.once} :
          on(type, q.callback, q.context, q.priority)
    \/ \E type \in Channels, q \in {q \in Requests : q.once} :
          once(type, q.callback, q.context, q.priority)
    \/ \E type \in Channels, pair \in Pairs : off(type, pair[1], pair[2])
    \/ \E type \in Channels : off(type, Undefined, Undefined)
    \/ \E type \in Channels : emit(type)
    \/ callbackReturn
    \/ callbackThrow

Spec == Init /\ [][Next]_vars

\* emits issued one after another: no emit from inside a callback, and no
\* callback throws
NextSeq ==
    \/ \E type \in Channels, q \in {q \in Requests : ~q.once} :
          on(type, q.callback, q.context, q.priority)
    \/ \E type \in Channels, q \in {q \in Requests : q.once} :
          once(type, q.callback, q.context, q.priority)
    \/ \E type \in Channels, pair \in Pairs : off(type, pair[1], pair[2])
    \/ \E type \in Channels : off(type, Undefined, Undefined)
    \/ \E type \in Channels : stack = <<>> /\ emit(type)
    \/ callbackReturn

SpecSeq == Init /\ [][NextSeq]_vars

\* the same callers, with callbacks that return: a callback that emit is
\* waiting for does not run for ever. This is weak fairness of
\* callbackReturn, WF_vars(callbackReturn), written with the condition under
\* which callbackReturn can take a step: an emit call is in progress
SpecSeqFair ==
    /\ Init /\ [][NextSeq]_vars
    /\ <>[](stack # <<>>) => []<><<callbackReturn>>_vars

\* ------------------------------------------------ a ListenerIndex by itself
\* the callbacks, contexts and priorities its callers use
IndexCallbacks  == {"f", "g"}
IndexContexts   == {Undefined, "c1", "c2"}
IndexPriorities == 0..2

\* new ListenerIndex(), or new ListenerIndex(callback, context, priority)
InitIndex ==
    /\ listeners = EmptyMap
    /\ arrays    = <<>>
    /\ recs      = <<>>
    /\ removed   = {}
    /\ stack     = <<>>
    /\ listenerIndex \in
          {ListenerIndex(callback, context, priority) :
              callback \in IndexCallbacks \cup {Undefined},
              context \in IndexContexts, priority \in IndexPriorities}

indexInsert(callback, context, priority) ==
    /\ listenerIndex' = insert(listenerIndex, callback, context, priority)
    /\ UNCHANGED <<listeners, arrays, recs, stack, removed>>

indexRemove(callback, context) ==
    /\ listenerIndex' = remove(listenerIndex, callback, context)
    /\ UNCHANGED <<listeners, arrays, recs, stack, removed>>

NextIndex ==
    \/ \E callback \in IndexCallbacks, context \in IndexContexts,
          priority \in IndexPriorities :
          indexInsert(callback, context, priority)
    \/ \E callback \in IndexCallbacks, context \in IndexContexts :
          indexRemove(callback, context)

SpecIndex == InitIndex /\ [][NextIndex]_vars

\* the callers of the second set
NextContexts ==
    \/ \E type \in Channels, q \in {q \in RequestsByContext : ~q.once} :
          on(type, q.callback, q.context, q.priority)
    \/ \E type \in Channels, q \in {q \in RequestsByContext : q.once} :
          once(type, q.callback, q.context, q.priority)
    \/ \E type \in Channels, pair \in PairsByContext :
          off(type, pair[1], pair[2])
    \/ \E type \in Channels : off(type, Undefined, Undefined)
    \/ \E type \in Channels, args \in Arguments : emitArgs(type, args)
    \/ callbackReturn
    \/ callbackThrow

SpecContexts == Init /\ [][NextContexts]_vars

\* the callers of the fourth set: emits one after another, no throw
NextSorted ==
    \/ \E type \in Channels, q \in RequestsByPriority :
          registerWithin(MaxSorted, type, q.once, q.priority, q.callback,
                         q.context)
    \/ \E type \in Channels, pair \in PairsByPriority :
          off(type, pair[1], pair[2])
    \/ \E type \in Channels : stack = <<>> /\ emit(type)
    \/ callbackReturn

SpecSorted == Init /\ [][NextSorted]_vars

\* the callers of the third set on one channel, the way each emit call
\* acquired its view recorded
NextLock ==
    \/ \E type \in Channels, q \in {q \in RequestsOnTwo : ~q.once} :
          on(type, q.callback, q.context, q.priority)
    \/ \E type \in Channels, q \in {q \in RequestsOnTwo : q.once} :
          once(type, q.callback, q.context, q.priority)
    \/ \E type \in Channels, pair \in PairsOnTwo :
          off(type, pair[1], pair[2])
    \/ \E type \in Channels : off(type, Undefined, Undefined)
    \/ \E type \in Channels : emitRecorded(type)
    \/ callbackReturn
    \/ callbackThrow

SpecLock == Init /\ [][NextLock]_vars

\* the callers of the third set
NextChannels ==
    \/ \E type \in TwoChannels, q \in {q \in RequestsOnTwo : ~q.once} :
          on(type, q.callback, q.context, q.priority)
    \/ \E type \in TwoChannels, q \in {q \in RequestsOnTwo : q.once} :
          once(type, q.callback, q.context, q.priority)
    \/ \E type \in TwoChannels, pair \in PairsOnTwo :
          off(type, pair[1], pair[2])
    \/ \E type \in TwoChannels : off(type, Undefined, Undefined)
    \/ \E type \in TwoChannels : emitArgs(type, ArgumentsOf[type])
    \/ callbackReturn
    \/ callbackThrow

SpecChannels == Init /\ [][NextChannels]_vars

\* ------------------------------------------------------------------ views
\* the listener objects of a sequence of ids
Content(R, s) == [k \in DOMAIN s |-> R[s[k]]]

List(type) == arrays[listeners[type]._listeners]

RegisteredIn(L, A, R, type, callback, context) ==
    /\ type \in DOMAIN L
    /\ \E r \in Elems(A[L[type]._listeners]) : matches(R, r, callback, context)

Registered(type, callback, context) ==
    RegisteredIn(listeners, arrays, recs, type, callback, context)

Sorted(s) ==
    \A j, k \in DOMAIN s : j < k => recs[s[j]]._priority <= recs[s[k]]._priority

\* the part of its snapshot an emit call has not reached yet
Ahead(f) == SubSeq(arrays[f.snapshot], f.i + 2, Len(arrays[f.snapshot]))

\* what callers can observe of the registry: per channel the listeners in
\* order, the lock and the index
Registry(L, A, R) ==
    [t \in DOMAIN L |-> [list   |-> Content(R, A[L[t]._listeners]),
                         locked |-> L[t]._isLocked,
                         index  |-> L[t]._index]]

\* ------------------------------------------------------------ a long list
\* a fifth set of callers, who register MaxLong pairs of four callbacks and
\* three contexts on one channel, at priorities 0, 1 and 2 in ascending
\* order, and then take listeners off one at a time
LongCallbacks == <<"f", "g", "h", "k">>
LongContexts  == <<Undefined, "c1", "c2">>

\* the k-th pair they use: neighbours differ in the callback, and pairs
\* four apart share the callback
LongPair(k) ==
    <<LongCallbacks[((k - 1) % 4) + 1], LongContexts[(((k - 1) \div 4) % 3) + 1]>>

\* the priority of their k-th registration: a times 0, then 1 up to the
\* b-th, then 2
LongPriority(k, a, b) == IF k <= a THEN 0 ELSE IF k <= b THEN 1 ELSE 2

\* the registry after their first n calls on(type, callback, context, priority)
RECURSIVE Registrations(_, _, _, _)
Registrations(type, n, a, b) ==
    IF n = 0
    THEN [listeners |-> EmptyMap, arrays |-> <<>>, recs |-> <<>>]
    ELSE LET before == Registrations(type, n - 1, a, b)
         IN  addListener(before.listeners, before.arrays, before.recs, type,
                         FALSE, LongPriority(n, a, b),
                         LongPair(n)[1], LongPair(n)[2])

InitLong ==
    \E a \in 0..MaxLong, b \in 0..MaxLong :
        /\ a <= b
        /\ listeners = Registrations("x", MaxLong, a, b).listeners
        /\ arrays    = Registrations("x", MaxLong, a, b).arrays
        /\ recs      = Registrations("x", MaxLong, a, b).recs
        /\ removed   = {}
        /\ stack     = <<>>
        /\ listenerIndex = ListenerIndex(Undefined, Undefined, 0)

\* off(type, callback, context) for a pair of theirs, registered or not
NextLong ==
    \E type \in Channels, k \in 1..(MaxLong + 1) :
        /\ type \in DOMAIN listeners
        /\ Len(List(type)) + MaxRemovals > MaxLong
        /\ off(type, LongPair(k)[1], LongPair(k)[2])

SpecLong == InitLong /\ [][NextLong]_vars

\* ----------------------------------------------------------------- claims
\* C1: every emit call invokes listeners that were registered when it
\* started, in non-decreasing priority order.
C1_PriorityOrder ==
    \A k \in DOMAIN stack :
        /\ Sorted(stack[k].log)
        /\ Elems(stack[k].log) \subseteq Elems(stack[k].start)

\* an emit call has invoked three listeners of three different priorities
C1_Witness ==
    \E k \in DOMAIN stack :
        /\ Len(stack[k].log) = 3
        /\ recs[stack[k].log[1]]._priority < recs[stack[k].log[2]]._priority
        /\ recs[stack[k].log[2]]._priority < recs[stack[k].log[3]]._priority

\* C2: in every state -- also while callbacks are running -- a call of on or
\* once with a (callback, context) pair that is registered on the channel
\* throws, whatever its priority and once flag.
C2_DuplicateRejected ==
    \A type \in Channels, pair \in Pairs, priority \in 0..2, once_ \in BOOLEAN :
        Registered(type, pair[1], pair[2])
        => addListener(listeners, arrays, recs, type, once_, priority,
                       pair[1], pair[2]).threw

\* a callback is running whose own listener, registered with a context, is
\* still registered on the channel of the emission
C2_Witness ==
    /\ stack # <<>>
    /\ recs[Top.listener]._context # Undefined
    /\ Registered(Top.type, recs[Top.listener]._callback,
                  recs[Top.listener]._context)

\* C3 (as claimed): a once listener is never invoked a second time: when an
\* emit call invokes it, it has not been marked as called and no emit call
\* further out has it in its log.
C3_OnceInvokedOnce ==
    \A k \in DOMAIN stack :
        recs[stack[k].listener]._once
        => /\ ~recs[stack[k].listener]._called
           /\ \A j \in 1..(k - 1) :
                  stack[k].listener \notin Elems(stack[j].log)

\* C4: with emits one after another and no throw, an emit call invokes
\* exactly the listeners of the channel at its start, in priority order; a
\* once listener it invokes was never invoked before; and when no emit is
\* running no invoked once listener is left on any channel.
C4_OnceThenGone ==
    /\ \A k \in DOMAIN stack :
          /\ stack[k].log = SubSeq(stack[k].start, 1, stack[k].i + 1)
          /\ arrays[stack[k].snapshot] = stack[k].start
          /\ Sorted(stack[k].start)
          /\ recs[stack[k].listener]._once => ~recs[stack[k].listener]._called
    /\ stack = <<>>
       => \A type \in DOMAIN listeners :
              \A r \in Elems(List(type)) : ~recs[r]._called

\* an emit call has invoked a once listener and, after it, a regular one
C4_Witness ==
    /\ Len(stack) = 1
    /\ \E j, k \in DOMAIN Top.log :
          /\ j < k
          /\ recs[Top.log[j]]._once
          /\ recs[Top.log[j]]._called
          /\ ~recs[Top.log[k]]._once

\* C5 (as claimed): when the outermost emit call returns, the pair of every
\* once listener it invoked can be registered again without an error,
\* unless a callback has registered that pair anew.
C5_ReRegisterAfterFiring ==
    [][(Len(stack) = 1 /\ callbackReturn /\ stack' = <<>>)
       => \A r \in Elems(Top.log) :
              (/\ recs[r]._once
               /\ ~RegisteredIn(listeners', arrays', recs', Top.type,
                                recs[r]._callback, recs[r]._context))
              => ~addListener(listeners', arrays', recs', Top.type, FALSE, 0,
                              recs[r]._callback, recs[r]._context).threw]_vars

\* C6 (as claimed): right after off(type, callback, context) for a
\* registered pair, on(type, callback, context) does not throw.
C6_ReRegisterAfterOff ==
    [][\A type \in Channels, pair \in Pairs :
          (Registered(type, pair[1], pair[2]) /\ off(type, pair[1], pair[2]))
          => ~addListener(listeners', arrays', recs', type, FALSE, 0,
                          pair[1], pair[2]).threw]_vars

\* C7: an emit call in progress iterates the listeners of its start and no
\* others -- a listener registered since then is sorted into the channel's
\* current list and is not invoked by it -- and an emit call that starts
\* takes every listener of the current list, so also those registered from
\* callbacks of an emission still in progress.
C7_Inside ==
    \A k \in DOMAIN stack :
        /\ stack[k].log = SubSeq(stack[k].start, 1, stack[k].i + 1)
        /\ arrays[stack[k].snapshot] = stack[k].start
        /\ stack[k].type \in DOMAIN listeners
           => /\ Sorted(List(stack[k].type))
              /\ \A r \in Elems(List(stack[k].type)) \ Elems(stack[k].start) :
                     r \notin Elems(stack[k].log)

C7_NextEmit ==
    \A type \in Channels :
        (~emitReturnsFalse(listeners, arrays, type) /\ emit(type))
        => Content(recs', stack'[Len(stack')].start) = Content(recs, List(type))

C7_AddedDuringEmission == [][C7_Inside' /\ C7_NextEmit]_vars

\* a listener registered after the outer emit call started has a lower
\* priority than a listener that call has not reached, and a nested emit
\* call is invoking the new listener
C7_Witness ==
    /\ Len(stack) = 2
    /\ stack[1].type = stack[2].type
    /\ stack[2].listener \notin Elems(stack[1].start)
    /\ \E r \in Elems(Ahead(stack[1])) :
          recs[stack[2].listener]._priority < recs[r]._priority

\* C8: a listener that off() was asked to remove while an emit call had not
\* reached it is still in the part of the snapshot that call has ahead, or
\* has been invoked by that call.
C8_RemovedStillInvoked ==
    \A k \in DOMAIN stack :
        /\ arrays[stack[k].snapshot] = stack[k].start
        /\ \A r \in stack[k].unreached :
              r \in Elems(stack[k].log) \/ r \in Elems(Ahead(stack[k]))

\* an emit call has invoked a listener that was removed before it reached it
C8_Witness ==
    \E k \in DOMAIN stack :
        \E r \in stack[k].unreached :
            /\ r \in Elems(stack[k].log)
            /\ ~Registered(stack[k].type, recs[r]._callback, recs[r]._context)

\* C9: an emit call that starts does not take a listener that off() was
\* asked to remove.
C9_RemovedNotInvokedLater ==
    [][\A type \in Channels :
          (~emitReturnsFalse(listeners, arrays, type) /\ emit(type))
          => Elems(stack'[Len(stack')].start) \cap removed' = {}]_vars

\* a nested emit call started after off() removed a listener that the outer
\* emit call holds, and runs without it
C9_Witness ==
    /\ Len(stack) = 2
    /\ stack[1].type = stack[2].type
    /\ \E r \in removed :
          /\ r \in Elems(stack[1].start)
          /\ r \notin Elems(stack[2].start)
          /\ ~recs[r]._once

\* C10: a throwing callback ends its emit call on the spot -- the caller
\* (the owner, or the callback of the enclosing emit call) goes on, no
\* further listener is invoked -- and the registry stays as the callbacks
\* left it.
C10_ThrowAborts ==
    [][callbackThrow
       => /\ Len(stack') = Len(stack) - 1
          /\ \A k \in DOMAIN stack' :
                /\ stack'[k].i = stack[k].i
                /\ Content(recs', stack'[k].log) = Content(recs, stack[k].log)
          /\ Registry(listeners', arrays', recs')
                = Registry(listeners, arrays, recs)]_vars

\* a callback is running after an earlier callback of the same emit call,
\* and the channel's list is no longer the one the call started with
C10_Witness ==
    /\ stack # <<>>
    /\ Top.i >= 1
    /\ Top.type \in DOMAIN listeners
    /\ Content(recs, List(Top.type)) # Content(recs, Top.start)
    /\ Len(arrays[Top.snapshot]) > Top.i + 1

\* C11 (as claimed): on a channel without registered listeners -- absent
\* from the map, or holding nothing but once listeners that have been
\* invoked -- a call of emit invokes no callback and changes nothing (it
\* takes one of its two early returns, which return false).
C11_NoListenersReturnsFalse ==
    [][\A type \in Channels :
          (/\ \/ type \notin DOMAIN listeners
              \/ \A r \in Elems(List(type)) : recs[r]._once /\ recs[r]._called
           /\ emit(type))
          => /\ emitReturnsFalse(listeners, arrays, type)
             /\ UNCHANGED vars]_vars

\* C12: an emit call that has invoked the last listener of its snapshot
\* returns true -- and every call that found a listener on the channel has
\* a snapshot of at least one listener -- whatever the callbacks did to the
\* channel meanwhile.
C12_ReturnsTrue ==
    [][(callbackReturn /\ Top.i + 1 >= Len(arrays[Top.snapshot]))
       => /\ Len(Top.start) >= 1
          /\ Len(stack') = Len(stack) - 1
          /\ emitReturn.returns = TRUE]_vars

\* the callback of the last listener of an emit call is running and the
\* channel, which held only regular listeners, is gone from the map
C12_Witness ==
    /\ stack # <<>>
    /\ Top.i + 1 = Len(arrays[Top.snapshot])
    /\ Top.type \notin DOMAIN listeners
    /\ Len(Top.start) >= 2
    /\ \A r \in Elems(Top.start) : ~recs[r]._once

\* C13: off(type, callback, context) for a pair that is not registered on
\* the channel -- the channel absent, the callback wrong, the context wrong,
\* or both -- keeps the map's channels, and the channel's listeners in
\* their order and its index.
C13_OffAbsentIsNoOp ==
    [][\A type \in Channels, pair \in Pairs :
          (~Registered(type, pair[1], pair[2]) /\ off(type, pair[1], pair[2]))
          => /\ DOMAIN listeners' = DOMAIN listeners
             /\ type \in DOMAIN listeners
                => /\ Content(recs', arrays'[listeners'[type]._listeners])
                         = Content(recs, List(type))
                   /\ listeners'[type]._index = listeners[type]._index]_vars

\* during an emission the channel's array has been replaced by a copy that
\* holds the same listeners in the same order, among them a callback
\* registered without a context and not with one
C13_Witness ==
    /\ stack # <<>>
    /\ Top.type \in DOMAIN listeners
    /\ listeners[Top.type]._listeners # Top.snapshot
    /\ ~listeners[Top.type]._isLocked
    /\ List(Top.type) = Top.start
    /\ Len(Top.start) >= 2
    /\ \E pair \in Pairs :
          /\ pair[2] # Undefined
          /\ ~Registered(Top.type, pair[1], pair[2])
          /\ Registered(Top.type, pair[1], Undefined)

\* C14: after off(type) without a callback the channel has no listeners --
\* the next emit takes an early return -- and on/once does not throw for
\* any (callback, context) pair.
C14_OffAllClearsChannel ==
    [][\A type \in Channels :
          off(type, Undefined, Undefined)
          => /\ emitReturnsFalse(listeners', arrays', type)
             /\ \A pair \in Pairs, priority \in 0..2, once_ \in BOOLEAN :
                    ~addListener(listeners', arrays', recs', type, once_,
                                 priority, pair[1], pair[2]).threw]_vars

\* an emit call in progress started with three listeners -- among them one
\* callback with and without a context -- that off() was asked to remove
\* before the call reached them, and its channel is gone from the map
C14_Witness ==
    /\ Len(stack) = 1
    /\ Top.type \notin DOMAIN listeners
    /\ Len(Top.start) = 3
    /\ Top.i = 0
    /\ Elems(Top.start) \ {Top.listener} \subseteq Top.unreached
    /\ \A r \in Elems(Top.start) : ~recs[r]._once

C16_DistinctContexts ==
    /\ \A type \in Channels, pair \in PairsByContext, other \in PairsByContext :
          (/\ other[1] = pair[1]
           /\ other[2] # pair[2]
           /\ fields(other[2]) = fields(pair[2]) \/ Undefined \in {other[2], pair[2]}
           /\ Registered(type, other[1], other[2])
           /\ ~Registered(type, pair[1], pair[2]))
          => ~addListener(listeners, arrays, recs, type, FALSE, 0,
                          pair[1], pair[2]).threw
    /\ \A k \in DOMAIN stack :
          stack[k].log = SubSeq(stack[k].start, 1, stack[k].i + 1)

\* C17 (as claimed): on/once places the new listener after every listener
\* of the channel whose priority is less than or equal to its own.
C17_EqualPriorityInOrder ==
    [][\A type \in Channels, q \in RequestsByPriority :
          (/\ ~addListener(listeners, arrays, recs, type, q.once, q.priority,
                           q.callback, q.context).threw
           /\ registerWithin(MaxSorted, type, q.once, q.priority,
                             q.callback, q.context))
          => LET before == IF type \in DOMAIN listeners
                           THEN Content(recs, List(type))
                           ELSE <<>>
                 place  == Cardinality({k \in DOMAIN before :
                                           before[k]._priority <= q.priority})
             IN  Content(recs', arrays'[listeners'[type]._listeners])
                 = InsertAt(before, place,
                            Listener(q.callback, q.context, q.priority,
                                     q.once))]_vars

\* C17 (amended): on/once places the new listener after every listener of
\* the channel when none has a greater priority, and otherwise after the
\* listeners of lower priority and before those of equal or greater
\* priority; the others keep their order.
C17_InsertionPlace ==
    [][\A type \in Channels, q \in RequestsByPriority :
          (/\ ~addListener(listeners, arrays, recs, type, q.once, q.priority,
                           q.callback, q.context).threw
           /\ registerWithin(MaxSorted, type, q.once, q.priority,
                             q.callback, q.context))
          => LET before == IF type \in DOMAIN listeners
                           THEN Content(recs, List(type))
                           ELSE <<>>
                 place  == IF \A k \in DOMAIN before :
                                  before[k]._priority <= q.priority
                           THEN Len(before)
                           ELSE Cardinality({k \in DOMAIN before :
                                                before[k]._priority < q.priority})
             IN  Content(recs', arrays'[listeners'[type]._listeners])
                 = InsertAt(before, place,
                            Listener(q.callback, q.context, q.priority,
                                     q.once))]_vars

\* a listener registered after an emit call started stands in the channel's
\* list after a listener of lower priority and before a listener of the
\* same priority that the call started with, and a listener of greater
\* priority follows
C17_Witness ==
    /\ stack # <<>>
    /\ Top.type \in DOMAIN listeners
    /\ Len(List(Top.type)) = 4
    /\ recs[List(Top.type)[1]]._priority < recs[List(Top.type)[2]]._priority
    /\ \E j, k, m \in DOMAIN List(Top.type) :
          /\ 1 < j /\ j < k /\ k < m
          /\ List(Top.type)[j] \notin Elems(Top.start)
          /\ List(Top.type)[k] \in Elems(Top.start)
          /\ recs[List(Top.type)[j]]._priority = recs[List(Top.type)[k]]._priority
          /\ recs[List(Top.type)[k]]._priority < recs[List(Top.type)[m]]._priority

\* C18 (as claimed): a call of on, once, off or emit on one channel, and
\* the return or throw of a callback of an emission on it, leaves the
\* other channel as it was -- present or absent, its listeners in their
\* order, its lock and its index; an emit call takes the listeners of its
\* own channel; and a pair registered on one channel and not on the other
\* can be registered on the other without an error.
C18_ChannelsIndependent ==
    [][/\ \A type \in TwoChannels : \A other \in TwoChannels \ {type} :
             (\/ \E q \in RequestsOnTwo :
                    register(type, q.once, q.priority, q.callback, q.context)
              \/ \E pair \in PairsOnTwo : off(type, pair[1], pair[2])
              \/ off(type, Undefined, Undefined)
              \/ emitArgs(type, ArgumentsOf[type])
              \/ /\ stack # <<>>
                 /\ Top.type = type
                 /\ callbackReturn \/ callbackThrow)
             => /\ (other \in DOMAIN listeners') = (other \in DOMAIN listeners)
                /\ other \in DOMAIN listeners
                   => Registry(listeners', arrays', recs')[other]
                         = Registry(listeners, arrays, recs)[other]
                /\ (~emitReturnsFalse(listeners, arrays, type)
                    /\ emitArgs(type, ArgumentsOf[type]))
                   => /\ stack'[Len(stack')].type = type
                      /\ Content(recs', stack'[Len(stack')].start)
                            = Content(recs, List(type))
       /\ \A type \in TwoChannels, pair \in PairsOnTwo :
             \A other \in TwoChannels \ {type} :
             (/\ RegisteredIn(listeners', arrays', recs', other, pair[1], pair[2])
              /\ ~RegisteredIn(listeners', arrays', recs', type, pair[1], pair[2]))
             => ~addListener(listeners', arrays', recs', type, FALSE, 0,
                             pair[1], pair[2]).threw]_vars

\* C19: the invocation an emit call makes, of the first listener and of
\* every next listener of its snapshot, has the listener's callback as the
\* function, the listener's context as the receiver and the arguments the
\* emit call was given, in their order.
C19_ReceiverAndArguments ==
    [][/\ \A type \in Channels, args \in Arguments :
             (~emitReturnsFalse(listeners, arrays, type) /\ emitArgs(type, args))
             => stack'[Len(stack')].call
                   = [fn   |-> recs[List(type)[1]]._callback,
                      this |-> recs[List(type)[1]]._context,
                      args |-> args]
       /\ (callbackReturn /\ Len(stack') = Len(stack))
          => stack'[Len(stack')].call
                = [fn   |-> recs[Top.start[Top.i + 2]]._callback,
                   this |-> recs[Top.start[Top.i + 2]]._context,
                   args |-> Top.call.args]]_vars

\* two emit calls with different arguments are in progress; the inner one
\* is invoking its second listener, registered with a context object, and
\* the outer one a listener with another receiver
C19_Witness ==
    /\ Len(stack) = 2
    /\ stack[1].args # stack[2].args
    /\ Top.i = 1
    /\ Top.call.this # Undefined
    /\ Top.call.this # stack[1].call.this
    /\ Len(Top.call.args) = 2

\* C20: an emit issued from inside a callback invokes the first listener
\* of its channel at once; while it is in progress no enclosing emit call
\* moves on; and when it returns it has invoked every listener of the list
\* it started with and the enclosing call is where it was.
C20_NestedEmitSynchronous ==
    [][/\ \A k \in 1..(Len(stack) - 1) :
             /\ k \in DOMAIN stack'
             /\ stack'[k].i = stack[k].i
             /\ stack'[k].call = stack[k].call
             /\ Len(stack'[k].log) = Len(stack[k].log)
       /\ \A type \in TwoChannels :
             (/\ stack # <<>>
              /\ ~emitReturnsFalse(listeners, arrays, type)
              /\ emitArgs(type, ArgumentsOf[type]))
             => /\ Len(stack') = Len(stack) + 1
                /\ stack'[Len(stack')].type = type
                /\ recs'[stack'[Len(stack')].listener] = recs[List(type)[1]]
       /\ (Len(stack) >= 2 /\ callbackReturn /\ Len(stack') < Len(stack))
          => /\ Top.log = Top.start
             /\ Top.i + 1 = Len(Top.start)
             /\ Len(stack') = Len(stack) - 1]_vars

\* an emit call on one channel, issued from a callback of an emit call on
\* the other channel that has a listener ahead, is invoking its last
\* listener
C20_Witness ==
    /\ Len(stack) = 2
    /\ stack[1].type # stack[2].type
    /\ Top.i + 1 = Len(Top.start)
    /\ Ahead(stack[1]) # <<>>

\* C21: insert of a pair that the index holds changes nothing: has stays
\* true and getPriority keeps the priority of the first insertion.
C21_InsertPresentIsNoOp ==
    [][\A callback \in IndexCallbacks, context \in IndexContexts,
         priority \in IndexPriorities :
          (/\ has(listenerIndex, callback, context)
           /\ indexInsert(callback, context, priority))
          => /\ has(listenerIndex', callback, context)
             /\ getPriority(listenerIndex', callback, context)
                   = getPriority(listenerIndex, callback, context)
             /\ listenerIndex' = listenerIndex]_vars

\* the index holds one callback without a context and with a context, at
\* two different priorities, so that an insert at a third one is at hand
C21_Witness ==
    /\ has(listenerIndex, "f", Undefined)
    /\ has(listenerIndex, "f", "c1")
    /\ getPriority(listenerIndex, "f", Undefined)
          # getPriority(listenerIndex, "f", "c1")
    /\ ~has(listenerIndex, "g", "c1")

\* C22: insert of a pair makes has true, with the priority given when it
\* was absent, for that callback under that key -- no context, or that
\* context object -- and changes has and getPriority under no other key.
C22_KeysAreSeparate ==
    [][\A callback \in IndexCallbacks, context \in IndexContexts,
         priority \in IndexPriorities :
          indexInsert(callback, context, priority)
          => /\ has(listenerIndex', callback, context)
             /\ ~has(listenerIndex, callback, context)
                => getPriority(listenerIndex', callback, context) = priority
             /\ \A cb \in IndexCallbacks, ctx \in IndexContexts :
                   <<cb, ctx>> # <<callback, context>>
                   => /\ has(listenerIndex', cb, ctx) = has(listenerIndex, cb, ctx)
                      /\ getPriority(listenerIndex', cb, ctx)
                            = getPriority(listenerIndex, cb, ctx)]_vars

\* the index holds a callback under one context object only -- not under
\* the other object, which has the same properties, and not without a
\* context -- and another callback without a context only
C22_Witness ==
    /\ has(listenerIndex, "g", "c2")
    /\ has(listenerIndex, "f", Undefined)
    /\ ~has(listenerIndex, "f", "c2")
    /\ ~has(listenerIndex, "g", "c1")
    /\ ~has(listenerIndex, "g", Undefined)
    /\ fields("c1") = fields("c2")
    /\ getPriority(listenerIndex, "g", "c1") = NoPriority

\* C23: remove of a pair makes has false for it, changes has and
\* getPriority for no other pair, and changes nothing when the pair is
\* absent.
C23_RemoveExactlyThePair ==
    [][\A callback \in IndexCallbacks, context \in IndexContexts :
          indexRemove(callback, context)
          => /\ ~has(listenerIndex', callback, context)
             /\ getPriority(listenerIndex', callback, context) = NoPriority
             /\ ~has(listenerIndex, callback, context)
                => listenerIndex' = listenerIndex
             /\ \A cb \in IndexCallbacks, ctx \in IndexContexts :
                   <<cb, ctx>> # <<callback, context>>
                   => /\ has(listenerIndex', cb, ctx) = has(listenerIndex, cb, ctx)
                      /\ getPriority(listenerIndex', cb, ctx)
                            = getPriority(listenerIndex, cb, ctx)]_vars

\* the index holds two callbacks under one context object, one of them
\* also without a context and under the other object, and the last
\* callback of a context has been removed (the context is gone)
C23_Witness ==
    /\ has(listenerIndex, "f", "c1") /\ has(listenerIndex, "g", "c1")
    /\ has(listenerIndex, "f", Undefined) /\ ~has(listenerIndex, "g", Undefined)
    /\ "c2" \notin DOMAIN listenerIndex.contextMap

\* C24: in every state the list of every channel is in ascending priority
\* order.
C24_AlwaysSorted ==
    \A type \in DOMAIN listeners : Sorted(List(type))

\* while two emit calls are in progress the channel's list is a third
\* array, which holds three listeners of three priorities
C24_Witness ==
    /\ Len(stack) = 2
    /\ Top.type \in DOMAIN listeners
    /\ listeners[Top.type]._listeners \notin {stack[1].snapshot, stack[2].snapshot}
    /\ Len(List(Top.type)) = 3
    /\ recs[List(Top.type)[1]]._priority < recs[List(Top.type)[2]]._priority
    /\ recs[List(Top.type)[2]]._priority < recs[List(Top.type)[3]]._priority

\* C25: in every state no two records of a channel's list have the same
\* (callback, context) pair.
C25_NoDuplicatePair ==
    \A type \in DOMAIN listeners :
        \A j, k \in DOMAIN List(type) :
            (/\ recs[List(type)[j]]._callback = recs[List(type)[k]]._callback
             /\ recs[List(type)[j]]._context = recs[List(type)[k]]._context)
            => j = k

\* a channel's list holds one callback with and without a context, next to
\* a once listener that has been invoked and is still in the list
C25_Witness ==
    \E type \in DOMAIN listeners :
        /\ Len(List(type)) = 3
        /\ \E j, k \in DOMAIN List(type) :
              /\ j # k
              /\ recs[List(type)[j]]._callback = recs[List(type)[k]]._callback
        /\ \E r \in Elems(List(type)) : recs[r]._called

\* C26 (as claimed): a channel is locked only while an emit call in
\* progress iterates the array that the channel holds.
C26_LockedWhileIterated ==
    \A type \in DOMAIN listeners :
        listeners[type]._isLocked
        => \E k \in DOMAIN stack :
               /\ stack[k].type = type
               /\ stack[k].snapshot = listeners[type]._listeners

\* C27: the array an emit call in progress iterates holds the listeners it
\* held when the call started, in their order.
C27_SnapshotUntouched ==
    \A k \in DOMAIN stack : arrays[stack[k].snapshot] = stack[k].start

\* two emit calls on one channel are in progress, each on an array of its
\* own, and the channel's list is a third array with other listeners than
\* either
C27_Witness ==
    /\ Len(stack) = 2
    /\ stack[1].type = stack[2].type
    /\ stack[1].snapshot # stack[2].snapshot
    /\ Top.type \in DOMAIN listeners
    /\ listeners[Top.type]._listeners \notin {stack[1].snapshot, stack[2].snapshot}
    /\ Elems(List(Top.type)) # Elems(stack[1].start)
    /\ Elems(List(Top.type)) # Elems(stack[2].start)
    /\ \E r \in Elems(stack[1].start) : recs[r]._called

\* C28 (as claimed): an emit call that found its channel locked and cloned
\* the array leaves the channel's lock as it is when it finishes.
C28_OnlyOwnerUnlocks ==
    [][(/\ callbackReturn
        /\ Len(stack') < Len(stack)
        /\ Top.view = "cloned"
        /\ Top.type \in DOMAIN listeners
        /\ Top.type \in DOMAIN listeners')
       => listeners'[Top.type]._isLocked = listeners[Top.type]._isLocked]_vars

\* C28 (amended): an emit call that finishes clears the channel's lock when
\* the channel still holds the array the call iterated -- for a call that
\* found the channel locked, its own clone -- and otherwise leaves the lock
\* as it is.
C28_UnlocksItsOwnArray ==
    [][(/\ callbackReturn
        /\ Len(stack') < Len(stack)
        /\ Top.type \in DOMAIN listeners
        /\ Top.type \in DOMAIN listeners')
       => listeners'[Top.type]._isLocked
             = (/\ listeners[Top.type]._isLocked
                /\ listeners[Top.type]._listeners # Top.snapshot)]_vars

\* a nested emit call that cloned the array is invoking its last listener
\* while the channel, locked by the outer call, holds its clone; and
\* likewise, an outer call whose array has been replaced
C28_Witness ==
    /\ Len(stack) = 2
    /\ stack[1].type = stack[2].type
    /\ stack[1].view = "locked" /\ stack[2].view = "cloned"
    /\ Top.i + 1 = Len(Top.start)
    /\ Top.type \in DOMAIN listeners
    /\ listeners[Top.type]._isLocked
    /\ listeners[Top.type]._listeners = Top.snapshot
    /\ listeners[Top.type]._listeners # stack[1].snapshot
    /\ Len(Top.start) >= 2

\* C29: an emit call, at the top or from inside a callback of an emission on
\* the same channel, starts with every listener the channel holds at that
\* moment, invokes one more of them each time a callback returns, and when
\* it finishes without a throw has invoked each of them exactly once; a
\* listener that emits its own channel from inside its callback, and not
\* again from the nested invocation, has then been invoked twice in all.
C29_EachListenerOnce ==
    [][/\ \A type \in Channels :
             (~emitReturnsFalse(listeners, arrays, type) /\ emit(type))
             => /\ Len(stack') = Len(stack) + 1
                /\ Content(recs', stack'[Len(stack')].start)
                      = Content(recs, List(type))
                /\ Len(stack'[Len(stack')].log) = 1
       /\ (callbackReturn /\ Len(stack') = Len(stack))
          => /\ Len(stack'[Len(stack')].log) = Len(Top.log) + 1
             /\ stack'[Len(stack')].log
                   = SubSeq(stack'[Len(stack')].start, 1, Len(Top.log) + 1)
             /\ Len(stack'[Len(stack')].start) = Len(Top.start)
       /\ (callbackReturn /\ Len(stack') < Len(stack))
          => /\ \A r \in Elems(Top.start) :
                    Cardinality({j \in DOMAIN Top.log : Top.log[j] = r}) = 1
             /\ Elems(Top.log) \subseteq Elems(Top.start)
             /\ (/\ Len(stack) = 2
                 /\ stack[1].type = Top.type
                 /\ stack[1].listener \in Elems(Top.start))
                => Cardinality({j \in DOMAIN Top.log :
                                    Top.log[j] = stack[1].listener})
                   + Cardinality({j \in DOMAIN stack[1].log :
                                      stack[1].log[j] = stack[1].listener})
                   = 2]_vars

\* a regular listener has emitted its own channel from inside its callback;
\* the nested call, which has invoked it a second time, is invoking the last
\* of three listeners
C29_Witness ==
    /\ Len(stack) = 2
    /\ stack[1].type = stack[2].type
    /\ ~recs[stack[1].listener]._once
    /\ stack[1].listener \in Elems(Top.log)
    /\ Len(Top.start) = 3
    /\ Top.i + 1 = Len(Top.start)
    /\ Top.listener # stack[1].listener

\* C30: when an emit call in which a once listener was invoked finishes and
\* the channel exists, the channel's current list -- whichever array that is
\* by then -- loses exactly its invoked once listeners and keeps the others
\* in their order, those registered during the call included; the index
\* loses exactly the pairs of the listeners taken out; the channel goes when
\* nothing is kept; and an emit call that starts takes every listener kept.
C30_CompactionOfCurrentList ==
    [][/\ (/\ callbackReturn
           /\ Len(stack') < Len(stack)
           /\ Top.hasItemsToDelete \/ recs[Top.listener]._once
           /\ Top.type \in DOMAIN listeners)
          => LET list == List(Top.type)
                 fired == {r \in Elems(list) :
                              \/ recs[r]._called
                              \/ r = Top.listener /\ recs[r]._once}
                 kept == SelectSeq(list, LAMBDA r : r \notin fired)
                 index == listeners[Top.type]._index
             IN  IF kept = <<>>
                 THEN Top.type \notin DOMAIN listeners'
                 ELSE /\ Top.type \in DOMAIN listeners'
                      /\ Content(recs', arrays'[listeners'[Top.type]._listeners])
                            = Content(recs, kept)
                      /\ \A pair \in Pairs :
                            /\ has(listeners'[Top.type]._index, pair[1], pair[2])
                                  = (/\ has(index, pair[1], pair[2])
                                     /\ ~\E r \in fired :
                                           /\ recs[r]._callback = pair[1]
                                           /\ recs[r]._context = pair[2])
                            /\ has(listeners'[Top.type]._index, pair[1], pair[2])
                               => getPriority(listeners'[Top.type]._index,
                                              pair[1], pair[2])
                                  = getPriority(index, pair[1], pair[2])
       /\ \A type \in Channels :
             (~emitReturnsFalse(listeners, arrays, type) /\ emit(type))
             => \A k \in DOMAIN List(type) :
                    /\ k \in DOMAIN stack'[Len(stack')].start
                    /\ ~recs[List(type)[k]]._called
                       => recs'[stack'[Len(stack')].start[k]]
                             = recs[List(type)[k]]]_vars

\* an emit call is in the callback of the last listener of its snapshot, a
\* once listener; the channel's list is by now another array that holds
\* that listener and, registered during the call, a regular and a once
\* listener
C30_Witness ==
    /\ stack # <<>>
    /\ Top.i + 1 = Len(Top.start)
    /\ recs[Top.listener]._once
    /\ Top.type \in DOMAIN listeners
    /\ listeners[Top.type]._listeners # Top.snapshot
    /\ Top.listener \in Elems(List(Top.type))
    /\ \E r, q \in Elems(List(Top.type)) \ Elems(Top.start) :
          /\ recs[r]._once /\ ~recs[r]._called
          /\ ~recs[q]._once

\* C31: no channel of the registry has an empty list; a registration on a
\* channel the registry does not hold creates it with the one new listener;
\* an off that takes the only listener of a channel, and an emit call that
\* invoked a once listener and whose compaction keeps nothing, take the
\* channel out of the registry.
C31_NoEmptyChannel ==
    [][/\ \A type \in DOMAIN listeners' :
             arrays'[listeners'[type]._listeners] # <<>>
       /\ \A type \in Channels, q \in Requests :
             (type \notin DOMAIN listeners
              /\ register(type, q.once, q.priority, q.callback, q.context))
             => /\ type \in DOMAIN listeners'
                /\ Len(arrays'[listeners'[type]._listeners]) = 1
       /\ \A type \in Channels, pair \in Pairs \cup {<<Undefined, Undefined>>} :
             (/\ type \in DOMAIN listeners
              /\ asked(type, pair[1], pair[2]) = Elems(List(type))
              /\ off(type, pair[1], pair[2]))
             => type \notin DOMAIN listeners'
       /\ (/\ callbackReturn
           /\ Len(stack') < Len(stack)
           /\ Top.hasItemsToDelete \/ recs[Top.listener]._once
           /\ Top.type \in DOMAIN listeners
           /\ \A r \in Elems(List(Top.type)) :
                  recs[r]._called \/ (r = Top.listener /\ recs[r]._once))
          => Top.type \notin DOMAIN listeners']_vars

\* the only listener left on a channel is a once listener in its callback,
\* invoked by an emit call that started with two listeners and has had the
\* other one removed by off
C31_Witness ==
    /\ Len(stack) = 1
    /\ Len(Top.start) = 2
    /\ Top.i = 1
    /\ recs[Top.listener]._once
    /\ Top.type \in DOMAIN listeners
    /\ Content(recs, List(Top.type)) = <<recs[Top.listener]>>
    /\ removed # {}

\* C32: off(type, callback, context) leaves the list a linear search and
\* delete would leave -- the list without the record of that pair, the
\* other records in their order, and the list as it was when no record has
\* the pair -- on lists of nine, ten and eleven listeners of equal and of
\* mixed priorities, for the first, the last and every inner listener.
C32_OffIsLinearDelete ==
    [][\A type \in Channels, k \in 1..(MaxLong + 1) :
          (type \in DOMAIN listeners
           /\ off(type, LongPair(k)[1], LongPair(k)[2]))
          => LET list == List(type)
                 rest == SelectSeq(list, LAMBDA r :
                             ~matches(recs, r, LongPair(k)[1], LongPair(k)[2]))
             IN  /\ Len(list) - Len(rest) <= 1
                 /\ IF rest = <<>>
                    THEN type \notin DOMAIN listeners'
                    ELSE /\ type \in DOMAIN listeners'
                         /\ Content(recs', arrays'[listeners'[type]._listeners])
                               = Content(recs, rest)]_vars

\* a list of ten listeners of priorities 0 to 2, left by an off that took a
\* listener of priority 1 out of a list of eleven -- neither its first nor
\* its last, the list being longer than the threshold and of mixed
\* priorities
C32_Witness ==
    /\ "x" \in DOMAIN listeners
    /\ Len(List("x")) = 10
    /\ recs[List("x")[1]]._priority = 0
    /\ recs[List("x")[10]]._priority = 2
    /\ \E k \in 1..MaxLong :
          /\ ~Registered("x", LongPair(k)[1], LongPair(k)[2])
          /\ getPriority(listeners["x"]._index, LongPair(k)[1], LongPair(k)[2]) = 1

\* C33: a call of on or once that does not throw leaves the channel's list
\* one record longer: the new record stands at some place of it, and the
\* records the list held are all there, in the order they had -- whether the
\* new record is appended, prepended or placed by the binary search.
C33_ExactlyOneInserted ==
    [][\A type \in Channels, q \in RequestsByPriority :
          (/\ ~addListener(listeners, arrays, recs, type, q.once, q.priority,
                           q.callback, q.context).threw
           /\ registerWithin(MaxSorted, type, q.once, q.priority,
                             q.callback, q.context))
          => LET before == IF type \in DOMAIN listeners
                           THEN Content(recs, List(type))
                           ELSE <<>>
                 after  == Content(recs', arrays'[listeners'[type]._listeners])
                 new    == Listener(q.callback, q.context, q.priority, q.once)
             IN  /\ Len(after) = Len(before) + 1
                 /\ \E place \in DOMAIN after :
                       /\ after[place] = new
                       /\ RemoveAt(after, place - 1) = before]_vars

\* a listener registered after an emit call started stands between two
\* listeners the call started with, one of lower and one of greater
\* priority: the binary search placed it
C33_Witness ==
    /\ stack # <<>>
    /\ Top.type \in DOMAIN listeners
    /\ Len(List(Top.type)) = 3
    /\ List(Top.type)[2] \notin Elems(Top.start)
    /\ List(Top.type)[1] \in Elems(Top.start)
    /\ List(Top.type)[3] \in Elems(Top.start)
    /\ recs[List(Top.type)[1]]._priority < recs[List(Top.type)[2]]._priority
    /\ recs[List(Top.type)[2]]._priority < recs[List(Top.type)[3]]._priority

\* C34 (as claimed): a once listener that an emit call in progress has
\* invoked, and that off was not asked to remove, is in the channel's list
\* and a registration of its pair throws.
C34_FiredStaysUntilEnd ==
    \A k \in DOMAIN stack :
        \A j \in 1..(Len(stack[k].log) - 1) :
            LET r == stack[k].log[j]
            IN  (recs[r]._once /\ r \notin removed)
                => /\ RegisteredIn(listeners, arrays, recs, stack[k].type,
                                   recs[r]._callback, recs[r]._context)
                   /\ addListener(listeners, arrays, recs, stack[k].type,
                                  FALSE, 0, recs[r]._callback,
                                  recs[r]._context).threw

\* C34 (amended): a once listener that has been invoked stays in the
\* channel's list, and a registration of its pair throws, from the return
\* of its callback on and through every step except an off that is asked to
\* remove it and the end of an emit call on the channel that has invoked a
\* once listener -- the call that invoked it or a call nested in that one.
C34_FiredStaysUntilCompaction ==
    [][\A type \in Channels, pair \in Pairs :
          (/\ type \in DOMAIN listeners
           /\ \E r \in Elems(List(type)) :
                 /\ matches(recs, r, pair[1], pair[2])
                 /\ \/ recs[r]._called
                    \/ /\ callbackReturn
                       /\ r = Top.listener
                       /\ recs[r]._once
           /\ ~(off(type, pair[1], pair[2]) \/ off(type, Undefined, Undefined))
           /\ ~(/\ callbackReturn
                /\ Len(stack') < Len(stack)
                /\ Top.type = type
                /\ Top.hasItemsToDelete \/ recs[Top.listener]._once))
          => /\ type \in DOMAIN listeners'
             /\ \E r \in Elems(arrays'[listeners'[type]._listeners]) :
                   /\ recs'[r]._callback = pair[1]
                   /\ recs'[r]._context = pair[2]
                   /\ recs'[r]._called
             /\ addListener(listeners', arrays', recs', type, FALSE, 0,
                            pair[1], pair[2]).threw]_vars

\* the outer of two emit calls on a channel has invoked a once listener and
\* is in a later callback; the nested call, started from that callback, has
\* invoked the once listener again and is in the callback of the last
\* listener of its snapshot
C34_Witness ==
    /\ Len(stack) = 2
    /\ stack[1].type = stack[2].type
    /\ stack[1].i >= 1
    /\ Top.i + 1 = Len(Top.start)
    /\ Top.i >= 1
    /\ \E r \in Elems(stack[1].log) \cap Elems(Top.log) :
          /\ recs[r]._once /\ recs[r]._called
          /\ r # stack[1].listener
          /\ r # Top.listener
          /\ r \in Elems(List(Top.type))

\* C35: when the callback of a once listener throws, the emit call ends
\* with every list as it was -- the same listeners, in order, each marked
\* or not as before, so the one that threw is not marked by this
\* invocation -- and with the indexes as they were; a listener that is in
\* the channel's list unmarked is taken by every emit call that starts.
C35_ThrowDoesNotConsume ==
    [][/\ (callbackThrow /\ recs[Top.listener]._once)
          => /\ Len(stack') = Len(stack) - 1
             /\ DOMAIN listeners' = DOMAIN listeners
             /\ \A type \in DOMAIN listeners :
                   /\ Content(recs', arrays'[listeners'[type]._listeners])
                         = Content(recs, List(type))
                   /\ listeners'[type]._index = listeners[type]._index
             /\ (Top.type \in DOMAIN listeners
                 /\ Top.listener \in Elems(List(Top.type))
                 /\ ~recs[Top.listener]._called)
                => \E r \in Elems(arrays'[listeners'[Top.type]._listeners]) :
                      /\ recs'[r] = recs[Top.listener]
                      /\ ~recs'[r]._called
       /\ \A type \in Channels :
             (~emitReturnsFalse(listeners, arrays, type) /\ emit(type))
             => \A r \in Elems(List(type)) :
                    (recs[r]._once /\ ~recs[r]._called)
                    => \E n \in Elems(stack'[Len(stack')].start) :
                           recs'[n] = recs[r]]_vars

\* an emit call has invoked a listener and is in the callback of a once
\* listener that is in the channel's list, unmarked, with a listener of the
\* snapshot still ahead
C35_Witness ==
    /\ Len(stack) = 1
    /\ Top.i >= 1
    /\ recs[Top.listener]._once
    /\ ~recs[Top.listener]._called
    /\ Ahead(Top) # <<>>
    /\ Top.type \in DOMAIN listeners
    /\ Top.listener \in Elems(List(Top.type))
    /\ listeners[Top.type]._isLocked

\* C36 (as claimed): while no emit call is in progress, the index of every
\* channel has exactly the pairs of the records of the channel's list, each
\* with the priority of its record.
C36_IndexMirrorsList ==
    stack = <<>>
    => \A type \in DOMAIN listeners, pair \in Pairs :
           /\ has(listeners[type]._index, pair[1], pair[2])
                 <=> Registered(type, pair[1], pair[2])
           /\ \A r \in Elems(List(type)) :
                  matches(recs, r, pair[1], pair[2])
                  => getPriority(listeners[type]._index, pair[1], pair[2])
                        = recs[r]._priority

\* C37 (as claimed): when a throwing callback ends the outermost emit call,
\* no listener marked as called is left in the channel's list; and an emit
\* call that starts with no other in progress takes no listener that is
\* marked as called.
C37_AbortedEmitConsumes ==
    [][/\ (/\ callbackThrow
           /\ Len(stack) = 1
           /\ Top.type \in DOMAIN listeners')
          => \A r \in Elems(arrays'[listeners'[Top.type]._listeners]) :
                 ~recs'[r]._called
       /\ \A type \in Channels :
             (/\ stack = <<>>
              /\ ~emitReturnsFalse(listeners, arrays, type)
              /\ emit(type))
             => \A r \in Elems(stack'[1].start) : ~recs'[r]._called]_vars

\* C38: in every state -- also with the channel locked by an emit call in
\* progress -- a call of on or once that throws leaves the registry as it
\* was: the same arrays with the same listeners, the same lock and index,
\* and the registered listener of the pair with its priority and once flag.
C38_RejectedChangesNothing ==
    \A type \in Channels, q \in Requests :
        LET res == addListener(listeners, arrays, recs, type, q.once,
                               q.priority, q.callback, q.context)
        IN  res.threw
            => /\ res.listeners = listeners
               /\ res.arrays = arrays
               /\ res.recs = recs
               /\ \A r \in Elems(res.arrays[res.listeners[type]._listeners]) :
                      matches(recs, r, q.callback, q.context)
                      => /\ res.recs[r]._priority = recs[r]._priority
                         /\ res.recs[r]._once = recs[r]._once

\* a channel is locked by an emit call in progress, and the callback is
\* about to register a pair that the channel holds, with another priority
\* and the other once flag than the registered listener has
C38_Witness ==
    /\ stack # <<>>
    /\ Top.type \in DOMAIN listeners
    /\ listeners[Top.type]._isLocked
    /\ listeners[Top.type]._listeners = Top.snapshot
    /\ \E q \in Requests, r \in Elems(List(Top.type)) :
          /\ matches(recs, r, q.callback, q.context)
          /\ recs[r]._priority # q.priority
          /\ recs[r]._once # q.once
          /\ addListener(listeners, arrays, recs, Top.type, q.once,
                         q.priority, q.callback, q.context).threw

\* C39: with callbacks that return and do not emit, an emit call never has
\* invoked more listeners than the channel held when it started, has
\* invoked exactly that many when it finishes, and does finish -- whatever
\* the callbacks register in the meantime.
C39_EmitTerminates ==
    /\ [](\A k \in DOMAIN stack : Len(stack[k].log) <= Len(stack[k].start))
    /\ [][(callbackReturn /\ Len(stack') < Len(stack))
          => Len(Top.log) = Len(Top.start)]_vars
    /\ (stack # <<>>) ~> (stack = <<>>)

\* an emit call that started with one listener is in the callback of that
\* listener, and the channel's list holds two more, registered during the
\* call, one of them with a greater priority
C39_Witness ==
    /\ Len(stack) = 1
    /\ Len(Top.start) = 1
    /\ Top.type \in DOMAIN listeners
    /\ Len(List(Top.type)) = 3
    /\ Top.listener \in Elems(List(Top.type))
    /\ \E r \in Elems(List(Top.type)) :
          recs[r]._priority > recs[Top.listener]._priority

====
